---------------------------- MODULE Spec2Model ----------------------------
(***************************************************************************)
(* The animation/rendering coordination layer of the portfolio site: the   *)
(* AnimationContext store and its uniform mirror, the ScrollController,    *)
(* the CanvasLayer frame loop, the velocity-field renderers with their     *)
(* ping-pong framebuffer, and the blue-noise cache.                        *)
(*                                                                         *)
(* JavaScript numbers are IEEE-754 binary floating point.  They are        *)
(* modelled as binary floating point values m * 2^e with round-to-nearest, *)
(* ties-to-even, exactly as the hardware rounds, but with a significand    *)
(* of MantissaBits bits instead of 53 so that every intermediate product   *)
(* fits the model checker's integers.  The exponent is not bounded.        *)
(***************************************************************************)
EXTENDS Integers, Sequences, FiniteSets, TLC

(***************************************************************************)
(* Floating point                                                          *)
(***************************************************************************)

\* binary64 has a 53-bit significand; 40 bits (ten periods of the 4-bit
\* binary expansion of 1/5, which every decimal literal of the program
\* shares) are dropped, so each literal rounds in the same direction as it
\* does in binary64.
MantissaBits == 53 - 40

Pow2(n) == 2 ^ n

RECURSIVE BitLen(_)
BitLen(n) == IF n = 0 THEN 0 ELSE 1 + BitLen(n \div 2)

Abs(n) == IF n < 0 THEN -n ELSE n

Sgn(n) == IF n < 0 THEN -1 ELSE IF n > 0 THEN 1 ELSE 0

Fin(m, e) == [c |-> "fin", m |-> m, e |-> e]

FZero == Fin(0, 0)

NaN == [c |-> "nan", m |-> 0, e |-> 0]

Inf(s) == [c |-> "inf", m |-> s, e |-> 0]

IsFinite(a) == a.c = "fin"

\* The float nearest to n * 2^e (ties to even), in canonical form: the
\* significand has exactly MantissaBits bits, or the value is zero.
RoundToFloat(n, e) ==
    IF n = 0 THEN FZero
    ELSE LET a == Abs(n)
             s == Sgn(n)
             L == BitLen(a)
         IN  IF L <= MantissaBits
             THEN Fin(s * a * Pow2(MantissaBits - L), e - (MantissaBits - L))
             ELSE LET sh   == L - MantissaBits
                      q    == a \div Pow2(sh)
                      r    == a % Pow2(sh)
                      half == Pow2(sh - 1)
                      up   == r > half \/ (r = half /\ q % 2 = 1)
                      q2   == IF up THEN q + 1 ELSE q
                  IN  IF q2 = Pow2(MantissaBits)
                      THEN Fin(s * Pow2(MantissaBits - 1), e + sh + 1)
                      ELSE Fin(s * q2, e + sh)

FromInt(n) == RoundToFloat(n, 0)

FNeg(a) == [a EXCEPT !.m = -a.m]

FAbs(a) == [a EXCEPT !.m = Abs(a.m)]

\* a + b
FAdd(a, b) ==
    IF a.c = "nan" \/ b.c = "nan" THEN NaN
    ELSE IF a.c = "inf" /\ b.c = "inf" THEN (IF a.m = b.m THEN a ELSE NaN)
    ELSE IF a.c = "inf" THEN a
    ELSE IF b.c = "inf" THEN b
    ELSE IF a.m = 0 THEN b
    ELSE IF b.m = 0 THEN a
    ELSE LET hi == IF a.e >= b.e THEN a ELSE b
             lo == IF a.e >= b.e THEN b ELSE a
             d  == hi.e - lo.e
         IN  IF d > MantissaBits + 1 THEN hi
             ELSE RoundToFloat(hi.m * Pow2(d) + lo.m, lo.e)

\* a - b
FSub(a, b) == FAdd(a, FNeg(b))

\* a * b
FMul(a, b) ==
    IF a.c = "nan" \/ b.c = "nan" THEN NaN
    ELSE IF a.c = "inf" \/ b.c = "inf"
         THEN (IF a.m = 0 \/ b.m = 0 THEN NaN ELSE Inf(Sgn(a.m) * Sgn(b.m)))
    ELSE RoundToFloat(a.m * b.m, a.e + b.e)

\* a / b: 0/0 is NaN and x/0 is an infinity, as in JavaScript
FDiv(a, b) ==
    IF a.c = "nan" \/ b.c = "nan" THEN NaN
    ELSE IF a.c = "inf" THEN (IF b.c = "inf" THEN NaN
                              ELSE Inf(a.m * (IF b.m < 0 THEN -1 ELSE 1)))
    ELSE IF b.c = "inf" THEN FZero
    ELSE IF b.m = 0 THEN (IF a.m = 0 THEN NaN ELSE Inf(Sgn(a.m)))
    ELSE IF a.m = 0 THEN FZero
    ELSE LET num    == Abs(a.m) * Pow2(MantissaBits + 2)
             q      == num \div Abs(b.m)
             sticky == IF num % Abs(b.m) = 0 THEN 0 ELSE 1
         IN  RoundToFloat(Sgn(a.m) * Sgn(b.m) * (2 * q + sticky),
                          a.e - b.e - (MantissaBits + 2) - 1)

\* a < b (false when either is NaN)
FLt(a, b) ==
    IF a.c = "nan" \/ b.c = "nan" THEN FALSE
    ELSE IF a.c = "inf" THEN a.m < 0 /\ ~(b.c = "inf" /\ b.m < 0)
    ELSE IF b.c = "inf" THEN b.m > 0
    ELSE IF Sgn(a.m) # Sgn(b.m) THEN Sgn(a.m) < Sgn(b.m)
    ELSE IF a.m > 0 THEN a.e < b.e \/ (a.e = b.e /\ a.m < b.m)
    ELSE IF a.m < 0 THEN a.e > b.e \/ (a.e = b.e /\ a.m < b.m)
    ELSE FALSE

FLe(a, b) == FLt(a, b) \/ (a.c # "nan" /\ a = b)

FGt(a, b) == FLt(b, a)

FGe(a, b) == FLe(b, a)

\* Math.min, Math.max: NaN when either argument is NaN
FMin(a, b) == IF a.c = "nan" \/ b.c = "nan" THEN NaN
              ELSE IF FLt(b, a) THEN b ELSE a

FMax(a, b) == IF a.c = "nan" \/ b.c = "nan" THEN NaN
              ELSE IF FLt(a, b) THEN b ELSE a

\* the next float above and below a positive float
FSucc(a) == IF a.m = Pow2(MantissaBits) - 1
            THEN Fin(Pow2(MantissaBits - 1), a.e + 1)
            ELSE Fin(a.m + 1, a.e)

FPred(a) == IF a.m = Pow2(MantissaBits - 1)
            THEN Fin(Pow2(MantissaBits) - 1, a.e - 1)
            ELSE Fin(a.m - 1, a.e)

\* The decimal literal n/d of the source text, correctly rounded.
Dec(n, d) == FDiv(FromInt(n), FromInt(d))

\* x += (target - x) * k
Toward(x, target, k) == FAdd(x, FMul(FSub(target, x), k))

F0 == FZero

F1 == FromInt(1)

\* the decimal literals of the source: D015 is 0.15, Dm05 is -0.5
Dm05 == Dec(-5, 10)

D01 == Dec(1, 10)

D02 == Dec(2, 10)

D03 == Dec(3, 10)

D05 == Dec(5, 10)

D06 == Dec(6, 10)

D07 == Dec(7, 10)

D08 == Dec(8, 10)

D09 == Dec(9, 10)

D003 == Dec(3, 100)

D005 == Dec(5, 100)

D008 == Dec(8, 100)

D015 == Dec(15, 100)

D045 == Dec(45, 100)

D065 == Dec(65, 100)

D085 == Dec(85, 100)

D092 == Dec(92, 100)

D0001 == Dec(1, 1000)

D0003 == Dec(3, 1000)

D006 == Dec(6, 100)

D075 == Dec(75, 100)


(***************************************************************************)
(* State                                                                   *)
(***************************************************************************)

VARIABLES
    store,                  \* AnimationProvider: [state, uniformsRef]
    scrollY,                \* window.scrollY
    scrollHeight,           \* document.documentElement.scrollHeight
    innerHeight,            \* window.innerHeight
    lastScrollY,            \* ScrollController refs
    lastScrollTime,
    velocityRef,
    smoothedVelocityRef,
    isActiveRef,
    decayPending,           \* decay callbacks handed to requestAnimationFrame
    scrollCount,            \* scroll events delivered so far
    scrollTargetRef,        \* MorphParticlesScene: the morph progress scroll aims at
    clReady,                \* CanvasLayer: rendererRef, sceneRef, cameraRef are set
    clRaf,                  \* CanvasLayer: animate is scheduled
    clFrames,               \* CanvasLayer: frames rendered
    smoothedCursorRef,      \* CanvasLayer refs
    clSmoothedVelocityRef,
    targetCalmRef,
    currentCalmRef,
    clUniforms,             \* CanvasLayer's own shader uniforms
    cameraPosition,
    cameraLookAt,
    clSize,                 \* CanvasLayer: renderer size and camera aspect
    innerWidth,             \* window.innerWidth
    mvEnabled,              \* MotionVectorMap: the enabled prop
    mvRaf,                  \* MotionVectorMap: animate is scheduled
    mvFrames,               \* MotionVectorMap: frames rendered
    highResPingPong,        \* PingPongFramebuffer: [current, sizeA, sizeB]
    lowResTarget,           \* size of the low-resolution target
    mouseRef,               \* MotionVectorMap refs
    prevMouseRef,
    mvVelocityRef,
    mvUniforms,             \* paint, blur and distortion material uniforms
    mvRenderer,             \* renderer size, quad material, passes of the last frame
    dlEnabled,              \* DistortionLayer: the enabled prop
    dlRaf,                  \* DistortionLayer: animate is scheduled
    dlFrames,               \* DistortionLayer: frames rendered
    dlUniforms,             \* DistortionLayer material uniforms and renderer size
    cachedBlueNoise,        \* BlueNoiseGenerator's module slot: a texture id, 0 for null
    blueNoiseTextures,      \* every blue-noise texture created, by id: width, disposed
    issuedSinceDispose,     \* per size, the textures generateBlueNoise has returned
                            \* since the last disposeBlueNoise
    isTouch,                \* GPUCursor: matchMedia('(pointer: coarse)').matches
    gcTargetRef,            \* GPUCursor targetRef
    gcCurrentRef,           \* GPUCursor currentRef
    gcVelocityRef,          \* GPUCursor velocityRef
    gcRaf,                  \* GPUCursor: animateCursor is scheduled
    gcFrames,               \* animation frames the browser has run for GPUCursor
    gcMoves,                \* pointer-move events so far
    pointer,                \* client position of the last pointer-move event
    held,                   \* since the target last changed: frames run, whether
                            \* the cursor was at rest then, the distance then, and
                            \* the largest distance on each side of the target
    mounted,                \* the components whose effects are in place
    gpu,                    \* every GPU resource MotionVectorMap and DistortionLayer
                            \* allocated: "live" or "disposed"
    rafQueue,               \* frame callbacks registered for the next frame, in the
                            \* order of their requestAnimationFrame calls
    frame,                  \* the frame the browser is running: the callbacks it
                            \* has still to run and what the ones it ran did
    call                    \* the last direct call of an exported function:
                            \* [fn, arg, res]

storeVars == <<store>>

windowVars == <<scrollY, scrollHeight>>

viewportVars == <<innerWidth, innerHeight>>

scrollVars == <<lastScrollY, lastScrollTime, velocityRef, smoothedVelocityRef,
                isActiveRef, decayPending, scrollCount>>

morphVars == <<scrollTargetRef>>

canvasVars == <<clReady, clRaf, clFrames, smoothedCursorRef, clSmoothedVelocityRef,
                targetCalmRef, currentCalmRef, clUniforms, cameraPosition, cameraLookAt>>

motionVars == <<mvEnabled, mvRaf, mvFrames, highResPingPong, lowResTarget, mouseRef,
                prevMouseRef, mvVelocityRef, mvUniforms, mvRenderer>>

distortionVars == <<dlEnabled, dlRaf, dlFrames, dlUniforms>>

\* what no scroll, store or CanvasLayer frame step touches
renderVars == <<viewportVars, clSize, motionVars, distortionVars>>

noiseVars == <<cachedBlueNoise, blueNoiseTextures, issuedSinceDispose>>

cursorVars == <<isTouch, gcTargetRef, gcCurrentRef, gcVelocityRef, gcRaf, gcFrames, gcMoves,
                pointer, held>>

lifeVars == <<mounted, gpu, rafQueue, frame>>

callVars == <<call>>

vars == <<storeVars, windowVars, scrollVars, morphVars, canvasVars, renderVars, noiseVars,
          cursorVars, lifeVars,
          callVars>>

(***************************************************************************)
(* AnimationContext                                                        *)
(***************************************************************************)

defaultState ==
    [ currentSection     |-> "home",
      scrollProgress     |-> F0,
      sectionProgress    |-> F0,
      cursorPosition     |-> [x |-> F0, y |-> F0],
      scrollVelocity     |-> F0,
      isTransitioning    |-> FALSE,
      transitionProgress |-> F0 ]

defaultUniforms ==
    [ uTime               |-> F0,
      uScrollProgress     |-> F0,
      uSectionProgress    |-> F0,
      uCursorPosition     |-> <<F0, F0>>,
      uScrollVelocity     |-> F0,
      uTransitionProgress |-> F0,
      uSectionIndex       |-> 0,
      uCalmFactor         |-> F0,
      uVelocityField      |-> "undefined" ]

\* the lookup answering -1 for an identifier it does not know
sectionMapMinusOne(sectionId) ==
    CASE sectionId = "home"       -> 0
      [] sectionId = "about"      -> 1
      [] sectionId = "skills"     -> 2
      [] sectionId = "projects"   -> 3
      [] sectionId = "experience" -> 4
      [] sectionId = "contact"    -> 5
      [] OTHER                    -> -1

\* the lookup with the indices of experience and contact exchanged
sectionMapExchanged(sectionId) ==
    CASE sectionId = "home"       -> 0
      [] sectionId = "about"      -> 1
      [] sectionId = "skills"     -> 2
      [] sectionId = "projects"   -> 3
      [] sectionId = "experience" -> 5
      [] sectionId = "contact"    -> 4
      [] OTHER                    -> 0

\* sectionMap[sectionId] ?? 0
sectionMap(sectionId) ==
    CASE sectionId = "home"       -> 0
      [] sectionId = "about"      -> 1
      [] sectionId = "skills"     -> 2
      [] sectionId = "projects"   -> 3
      [] sectionId = "experience" -> 4
      [] sectionId = "contact"    -> 5
      [] OTHER                    -> 0

setSection(s, sectionId) ==
    [s EXCEPT !.state.currentSection = sectionId,
              !.uniformsRef.uSectionIndex = sectionMap(sectionId)]

setScrollProgress(s, progress) ==
    [s EXCEPT !.state.scrollProgress = progress,
              !.uniformsRef.uScrollProgress = progress]

setSectionProgress(s, progress) ==
    [s EXCEPT !.state.sectionProgress = progress,
              !.uniformsRef.uSectionProgress = progress]

setCursorPosition(s, x, y) ==
    [s EXCEPT !.state.cursorPosition = [x |-> x, y |-> y],
              !.uniformsRef.uCursorPosition = <<x, y>>]

setScrollVelocity(s, velocity) ==
    [s EXCEPT !.state.scrollVelocity = velocity,
              !.uniformsRef.uScrollVelocity = velocity]

\* setTransitionProgress counting the two ends as transitioning
setTransitionProgressInclusive(s, progress) ==
    [s EXCEPT !.state.transitionProgress = progress,
              !.state.isTransitioning = FGe(progress, F0) /\ FLe(progress, F1),
              !.uniformsRef.uTransitionProgress = progress]

\* setTransitionProgress mirroring into the section-progress uniform
setTransitionProgressWrongField(s, progress) ==
    [s EXCEPT !.state.transitionProgress = progress,
              !.state.isTransitioning = FGt(progress, F0) /\ FLt(progress, F1),
              !.uniformsRef.uSectionProgress = progress]

setTransitionProgress(s, progress) ==
    [s EXCEPT !.state.transitionProgress = progress,
              !.state.isTransitioning = FGt(progress, F0) /\ FLt(progress, F1),
              !.uniformsRef.uTransitionProgress = progress]

(***************************************************************************)
(* ScrollController                                                        *)
(***************************************************************************)

SECTIONS ==
    << [id |-> "home",       start |-> F0,           end |-> D015],
       [id |-> "about",      start |-> D015, end |-> D03],
       [id |-> "skills",     start |-> D03, end |-> D045],
       [id |-> "projects",   start |-> D045, end |-> D065],
       [id |-> "experience", start |-> D065, end |-> D08],
       [id |-> "contact",    start |-> D08, end |-> F1] >>

calculateScrollProgress(y, sh, ih) ==
    LET docHeight == sh - ih
    IN  IF docHeight <= 0 THEN F0
        ELSE FMax(F0, FMin(F1, FDiv(FromInt(y), FromInt(docHeight))))

\* the ids of SECTIONS, in order
SectionOrder == <<"home", "about", "skills", "projects", "experience", "contact">>

\* the test of getCurrentSection's loop
InSection(progress, section) ==
    FGe(progress, section.start) /\ FLt(progress, section.end)

\* the sections whose half-open range holds progress
Containing(progress) ==
    { i \in 1..Len(SectionOrder) : InSection(progress, SECTIONS[i]) }

\* the first position of a non-empty set of positions, else the fallback
FirstOr(positions, fallback) ==
    IF positions # {}
    THEN CHOOSE i \in positions : \A j \in positions : i <= j
    ELSE fallback

\* getCurrentSection falling back to the first section
CurrentSectionPosFirstFallback(progress) == FirstOr(Containing(progress), 1)

\* 1-based position in SECTIONS of the section getCurrentSection returns:
\* the first whose range holds progress, else the last
CurrentSectionPos(progress) == FirstOr(Containing(progress), Len(SectionOrder))

getCurrentSection(progress) == SECTIONS[CurrentSectionPos(progress)]

\* calculateSectionProgress once sectionRange is known
sectionProgressOver(progress, section, sectionRange) ==
    IF FLe(sectionRange, F0) THEN F0
    ELSE FMax(F0, FMin(F1, FDiv(FSub(progress, section.start), sectionRange)))

calculateSectionProgress(progress, section) ==
    sectionProgressOver(progress, section, FSub(section.end, section.start))

\* SECTIONS.findIndex(s => s.id === id), 0-based, -1 when there is none
findIndex(id) == FirstOr({ i \in 1..Len(SectionOrder) : SectionOrder[i] = id }, 0) - 1

\* the calm target without its 0.9 ceiling
calmTargetNoCeiling(progress, section) ==
    FAdd(FMul(progress, D07), FMul(FromInt(findIndex(section.id)), D005))

calmTarget(progress, section) ==
    FMin(FAdd(FMul(progress, D07),
              FMul(FromInt(findIndex(section.id)), D005)),
         D09)

transitionOf(sectionProgress) ==
    IF FLt(sectionProgress, D015)
    THEN FDiv(sectionProgress, D015)
    ELSE IF FGt(sectionProgress, D085)
    THEN FSub(F1, FDiv(FSub(sectionProgress, D085), D015))
    ELSE F1

\* the published velocity without its ceiling of 1
publishedVelocityUnclamped(smoothed) == FDiv(smoothed, FromInt(800))

publishedVelocity(smoothed) == FMin(FDiv(smoothed, FromInt(800)), F1)

\* velocityRef after the raw-velocity blend of one scroll sample
blendVelocity(v, y, lastY, deltaTime) ==
    IF deltaTime > 0
    THEN FAdd(FMul(v, D07),
              FMul(FMul(FAbs(FDiv(FromInt(y - lastY), FromInt(deltaTime))),
                        FromInt(1000)),
                   D03))
    ELSE v

\* the store after the setters handleScroll calls, in the order it calls them
publishScroll(s, progress, section, sectionProgress, velocity) ==
    setTransitionProgress(
        [setSection(
            setScrollVelocity(
                setSectionProgress(setScrollProgress(s, progress), sectionProgress),
                velocity),
            section.id)
         EXCEPT !.uniformsRef.uCalmFactor = calmTarget(progress, section)],
        transitionOf(sectionProgress))

\* handleScroll from the section on
publishSection(s, progress, section, velocity) ==
    publishScroll(s, progress, section, calculateSectionProgress(progress, section),
                  velocity)

\* handleScroll from the scroll progress on
publishProgress(s, progress, velocity) ==
    publishSection(s, progress, getCurrentSection(progress), velocity)

\* handleScroll without its visibility guard
handleScrollUnguarded(y, dt) ==
    /\ velocityRef' = blendVelocity(velocityRef, y, lastScrollY, dt)
    /\ smoothedVelocityRef' = Toward(smoothedVelocityRef, velocityRef', D015)
    /\ store' = publishProgress(store,
                                calculateScrollProgress(y, scrollHeight, innerHeight),
                                publishedVelocity(smoothedVelocityRef'))
    /\ lastScrollY' = y
    /\ lastScrollTime' = lastScrollTime + dt
    /\ decayPending' = decayPending + 1

\* handleScroll with window.scrollY = y and Date.now() = lastScrollTime + dt
handleScroll(y, dt) ==
    IF ~isActiveRef
    THEN UNCHANGED <<store, lastScrollY, lastScrollTime, velocityRef,
                     smoothedVelocityRef, decayPending>>
    ELSE /\ velocityRef' = blendVelocity(velocityRef, y, lastScrollY, dt)
         /\ smoothedVelocityRef' = Toward(smoothedVelocityRef, velocityRef', D015)
         /\ store' = publishProgress(store,
                                     calculateScrollProgress(y, scrollHeight, innerHeight),
                                     publishedVelocity(smoothedVelocityRef'))
         /\ lastScrollY' = y
         /\ lastScrollTime' = lastScrollTime + dt
         /\ decayPending' = decayPending + 1

\* the callback handleScroll hands to requestAnimationFrame
decayCallback ==
    /\ velocityRef' = FMul(velocityRef, D092)
    /\ smoothedVelocityRef' = Toward(smoothedVelocityRef, velocityRef', D01)
    /\ store' = setScrollVelocity(store, publishedVelocity(smoothedVelocityRef'))

handleVisibilityChange(visible) == isActiveRef' = visible

(***************************************************************************)
(* NeuralMorphParticles                                                    *)
(***************************************************************************)

\* document.body.scrollHeight: the body has no margin, so it is the
\* document's scroll height
bodyScrollHeight == scrollHeight

\* MorphParticlesScene's scroll listener with window.scrollY = y
morphHandleScroll(y) ==
    LET maxScroll      == bodyScrollHeight - innerHeight
        scrollFraction == FMin(F1, FMax(F0, FDiv(FromInt(y), FromInt(maxScroll))))
    IN  scrollTargetRef' = FMul(scrollFraction, FromInt(2))

(***************************************************************************)
(* CanvasLayer                                                             *)
(***************************************************************************)

createUniforms ==
    [ uTime               |-> F0,
      uScrollProgress     |-> F0,
      uSectionProgress    |-> F0,
      uCursorPosition     |-> <<F0, F0>>,
      uScrollVelocity     |-> F0,
      uTransitionProgress |-> F0,
      uSectionIndex       |-> 0,
      uCalmFactor         |-> F0 ]

Vec(x, y, z) == <<x, y, z>>

sectionCameraPositions ==
    << [pos |-> Vec(F0, F0, FromInt(14)),                   target |-> Vec(F0, F0, F0)],
       [pos |-> Vec(FromInt(3), F1, FromInt(12)),           target |-> Vec(F1, F0, F0)],
       [pos |-> Vec(FromInt(-2), FromInt(-1), FromInt(11)), target |-> Vec(FromInt(-1), F0, F0)],
       [pos |-> Vec(F0, FromInt(3), FromInt(10)),           target |-> Vec(F0, F1, F0)],
       [pos |-> Vec(FromInt(2), FromInt(-2), FromInt(12)),  target |-> Vec(D05, Dm05, F0)],
       [pos |-> Vec(F0, F0, FromInt(8)),                    target |-> Vec(F0, F0, F0)] >>

\* a + (b - a) * t
Lerp(a, b, t) == FAdd(a, FMul(FSub(b, a), t))


\* sectionCameraPositions[idx] || sectionCameraPositions[0], idx 0-based
currentCam(idx) ==
    IF idx + 1 \in 1..Len(sectionCameraPositions)
    THEN sectionCameraPositions[idx + 1]
    ELSE sectionCameraPositions[1]

\* sectionCameraPositions[Math.min(idx + 1, length - 1)]
nextCam(idx) ==
    sectionCameraPositions[
        (IF idx + 1 < Len(sectionCameraPositions) - 1
         THEN idx + 1 ELSE Len(sectionCameraPositions) - 1) + 1]

targetPos(idx, sectionBlend) ==
    [k \in 1..3 |-> Lerp(currentCam(idx).pos[k], nextCam(idx).pos[k], sectionBlend)]

targetLook(idx, sectionBlend) ==
    [k \in 1..3 |-> Lerp(currentCam(idx).target[k], nextCam(idx).target[k], sectionBlend)]

\* whether sectionCameraPositions has an entry at the 0-based index i
hasPose(i) == i + 1 \in 1..Len(sectionCameraPositions)

\* the next-pose index without the clamp to the last entry
nextIndexUnclamped(idx) == idx + 1

\* Math.min(idx + 1, sectionCameraPositions.length - 1)
nextIndex(idx) ==
    IF idx + 1 < Len(sectionCameraPositions) - 1
    THEN idx + 1 ELSE Len(sectionCameraPositions) - 1

\* the camera interpolation of animate for Math.floor(uSectionIndex) = idx:
\* targetPos and targetLook, or the TypeError of reading nextCam.pos when
\* nextCam is undefined
cameraTarget(idx, sectionBlend) ==
    IF hasPose(nextIndex(idx))
    THEN [threw |-> FALSE, pos |-> targetPos(idx, sectionBlend),
          look |-> targetLook(idx, sectionBlend)]
    ELSE [threw |-> TRUE, pos |-> <<>>, look |-> <<>>]

\* the calm value animate smooths toward
canvasCalmTarget(u) ==
    FMin(FAdd(FMul(u.uScrollProgress, D06),
              FMul(FromInt(u.uSectionIndex), D008)),
         D09)

\* animate(time): one frame of the CanvasLayer loop
animate(time) ==
    IF ~clReady
    THEN /\ clRaf' = FALSE
         /\ UNCHANGED <<store, clFrames, smoothedCursorRef, clSmoothedVelocityRef,
                        targetCalmRef, currentCalmRef, clUniforms, cameraPosition,
                        cameraLookAt>>
    ELSE LET ctx    == store.uniformsRef
             uTime  == FMul(FromInt(time), D0001)
             cx     == Toward(smoothedCursorRef.x, ctx.uCursorPosition[1], D008)
             cy     == Toward(smoothedCursorRef.y, ctx.uCursorPosition[2], D008)
             sv     == Toward(clSmoothedVelocityRef, ctx.uScrollVelocity, D01)
             tc     == canvasCalmTarget(ctx)
             calm   == Toward(currentCalmRef, tc, D005)
             idx    == ctx.uSectionIndex
             blend  == ctx.uSectionProgress
             tp     == targetPos(idx, blend)
             moved  == [k \in 1..3 |-> Toward(cameraPosition[k], tp[k], D003)]
             drift  == FMul(D0003, FSub(F1, FMul(calm, D05)))
         IN  /\ store' = [store EXCEPT !.uniformsRef.uTime = uTime,
                                       !.uniformsRef.uCalmFactor = calm]
             /\ smoothedCursorRef' = [x |-> cx, y |-> cy]
             /\ clSmoothedVelocityRef' = sv
             /\ targetCalmRef' = tc
             /\ currentCalmRef' = calm
             /\ clUniforms' = [ uTime               |-> uTime,
                                uScrollProgress     |-> ctx.uScrollProgress,
                                uSectionProgress    |-> ctx.uSectionProgress,
                                uCursorPosition     |-> <<cx, cy>>,
                                uScrollVelocity     |-> sv,
                                uTransitionProgress |-> ctx.uTransitionProgress,
                                uSectionIndex       |-> ctx.uSectionIndex,
                                uCalmFactor         |-> calm ]
             /\ cameraLookAt' = targetLook(idx, blend)
             /\ cameraPosition' = [k \in 1..3 |->
                                     IF k = 3 THEN moved[k]
                                     ELSE FAdd(moved[k],
                                               FMul(IF k = 1 THEN cx ELSE cy, drift))]
             /\ clFrames' = clFrames + 1
             /\ clRaf' = TRUE

\* handleResize of CanvasLayer
canvasHandleResize(w, h) ==
    IF ~clReady THEN UNCHANGED clSize
    ELSE clSize' = [width |-> w, height |-> h, aspect |-> FDiv(FromInt(w), FromInt(h))]

\* initScene's connection lines. The particles are on the x axis at whole
\* coordinates, so the distance of two of them is the difference of their
\* coordinates.
maxConnections == 2

\* Math.sqrt(dx * dx + dy * dy + dz * dz) with dy = dz = 0
dist(positions, i, j) == Abs(positions[i] - positions[j])

\* the particles after i closer to it than 3.5
neighbors(positions, i) ==
    { j \in (i + 1)..Len(positions) : 2 * dist(positions, i, j) < 7 }

\* the neighbour that neighbors.sort((a, b) => a.dist - b.dist) puts first:
\* the nearest one, the earliest pushed among equally near ones
nearest(positions, i, S) ==
    CHOOSE j \in S : \A k \in S :
        \/ dist(positions, i, j) < dist(positions, i, k)
        \/ dist(positions, i, j) = dist(positions, i, k) /\ j <= k

RECURSIVE sortedNeighbors(_, _, _)
sortedNeighbors(positions, i, S) ==
    IF S = {} THEN <<>>
    ELSE <<nearest(positions, i, S)>>
            \o sortedNeighbors(positions, i, S \ {nearest(positions, i, S)})

\* neighbors.slice(0, 2) after the sort
closestNeighbors(positions, i) ==
    SubSeq(sortedNeighbors(positions, i, neighbors(positions, i)), 1,
           IF Cardinality(neighbors(positions, i)) < 2
           THEN Cardinality(neighbors(positions, i)) ELSE 2)

\* the inner loop: the segments from particle i to its closest neighbours,
\* appended until lineIndex reaches the cap
addLines(lines, i, closest, cap) ==
    lines \o [n \in 1..(IF Len(closest) < cap - Len(lines)
                         THEN Len(closest) ELSE cap - Len(lines)) |-> <<i, closest[n]>>]

\* the outer loop from particle i on, with lineIndex = Len(lines)
RECURSIVE connectFrom(_, _, _, _)
connectFrom(positions, i, lines, cap) ==
    IF i > Len(positions) \/ Len(lines) >= cap THEN lines
    ELSE connectFrom(positions, i + 1,
                     addLines(lines, i, closestNeighbors(positions, i), cap), cap)

\* the segments of lineGeometry
connections(positions) == connectFrom(positions, 1, <<>>, maxConnections)

\* every particle's closest neighbours: the segments the loops would add
\* with no cap
candidateConnections(positions) ==
    connectFrom(positions, 1, <<>>, 2 * Len(positions))

(***************************************************************************)
(* PingPongFramebuffer                                                     *)
(***************************************************************************)

\* new PingPongFramebuffer(width, height): two targets, A current
newPingPong(width, height) ==
    [current |-> "A", sizeA |-> <<width, height>>, sizeB |-> <<width, height>>]

\* read() returning the target write() returns
readSameAsWrite(pp) == IF pp.current = "A" THEN "B" ELSE "A"

read(pp) == IF pp.current = "A" THEN "A" ELSE "B"

\* write() returning the target read() returns
writeSameAsRead(pp) == IF pp.current = "A" THEN "A" ELSE "B"

write(pp) == IF pp.current = "A" THEN "B" ELSE "A"

swap(pp) == [pp EXCEPT !.current = IF pp.current = "A" THEN "B" ELSE "A"]

\* setSize resizing the first target only
setSizeFirstTargetOnly(pp, width, height) == [pp EXCEPT !.sizeA = <<width, height>>]

setSize(pp, width, height) ==
    [pp EXCEPT !.sizeA = <<width, height>>, !.sizeB = <<width, height>>]

\* target.texture
Texture(target) == <<target, "texture">>

(***************************************************************************)
(* BlueNoiseGenerator                                                      *)
(***************************************************************************)

\* the cache test of generateBlueNoise
cacheHit(size) ==
    cachedBlueNoise # 0 /\ blueNoiseTextures[cachedBlueNoise].width = size

\* the texture generateBlueNoise(size) returns
generatedTexture(size) ==
    IF cacheHit(size) THEN cachedBlueNoise ELSE Len(blueNoiseTextures) + 1

\* generateBlueNoise(size): the cached texture when its width is size, else
\* a new texture that replaces whatever the slot held
generateBlueNoise(size) ==
    IF cacheHit(size)
    THEN UNCHANGED <<cachedBlueNoise, blueNoiseTextures>>
    ELSE /\ blueNoiseTextures' =
              Append(blueNoiseTextures, [width |-> size, disposed |-> FALSE])
         /\ cachedBlueNoise' = Len(blueNoiseTextures) + 1

disposeBlueNoise ==
    IF cachedBlueNoise # 0
    THEN /\ blueNoiseTextures' =
              [blueNoiseTextures EXCEPT ![cachedBlueNoise].disposed = TRUE]
         /\ cachedBlueNoise' = 0
    ELSE UNCHANGED <<cachedBlueNoise, blueNoiseTextures>>

(***************************************************************************)
(* MotionVectorMap                                                         *)
(***************************************************************************)

\* Math.floor(n / d) of two non-negative integers
FloorDiv(n, d) == n \div d

Res(w, h) == <<FDiv(FromInt(w), FromInt(4)), FDiv(FromInt(h), FromInt(4))>>

\* initScene runs on the canvas the effect has just created, so the renderer,
\* scene, camera, targets, materials and quad exist when animate first runs
mvReady == TRUE

initialMotionUniforms(w, h) ==
    [ paint      |-> [ uMousePos       |-> <<F0, F0>>,
                       uMouseVelocity  |-> <<F0, F0>>,
                       uPreviousLowRes |-> Texture("L"),
                       uTime           |-> F0,
                       uResolution     |-> Res(w, h) ],
      blur       |-> [ uTexture |-> "null", uResolution |-> Res(w, h) ],
      distortion |-> [ uBlueNoise  |-> 1,
                       uResolution |-> <<FromInt(w), FromInt(h)>> ] ]

initialMotionRenderer(w, h) ==
    [ size         |-> <<w, h>>,
      renderTarget |-> "null",
      quadMaterial |-> "paint",
      paintPass    |-> [target |-> "null", previous |-> "null"],
      blurPass     |-> [target |-> "null", source |-> "null"] ]

\* handleMouseMove: client pixels to normalized device coordinates
motionHandleMouseMove(clientX, clientY) ==
    mouseRef' =
        [ x |-> FSub(FMul(FDiv(FromInt(clientX), FromInt(innerWidth)), FromInt(2)), F1),
          y |-> FAdd(FMul(FNeg(FDiv(FromInt(clientY), FromInt(innerHeight))), FromInt(2)), F1) ]

\* animate(time) of MotionVectorMap
motionAnimate(time) ==
    IF ~mvReady
    THEN /\ mvRaf' = FALSE
         /\ UNCHANGED <<store, mvFrames, highResPingPong, prevMouseRef, mvVelocityRef,
                        mvUniforms, mvRenderer>>
    ELSE IF ~mvEnabled
    THEN /\ mvRaf' = TRUE
         /\ UNCHANGED <<store, mvFrames, highResPingPong, prevMouseRef, mvVelocityRef,
                        mvUniforms, mvRenderer>>
    ELSE LET timeSeconds == FMul(FromInt(time), D0001)
             dx == FSub(mouseRef.x, prevMouseRef.x)
             dy == FSub(mouseRef.y, prevMouseRef.y)
             vx == FAdd(FMul(mvVelocityRef.x, D08), FMul(dx, D02))
             vy == FAdd(FMul(mvVelocityRef.y, D08), FMul(dy, D02))
             paintTarget == write(highResPingPong)
             swapped     == swap(highResPingPong)
         IN  /\ mvVelocityRef' = [x |-> vx, y |-> vy]
             /\ prevMouseRef' = mouseRef
             /\ mvUniforms' =
                  [mvUniforms EXCEPT
                     !.paint.uMousePos = <<mouseRef.x, mouseRef.y>>,
                     !.paint.uMouseVelocity = <<FMul(vx, FromInt(10)), FMul(vy, FromInt(10))>>,
                     !.paint.uTime = timeSeconds,
                     !.paint.uPreviousLowRes = Texture("L"),
                     !.blur.uTexture = Texture(read(swapped))]
             /\ highResPingPong' = swapped
             /\ mvRenderer' =
                  [mvRenderer EXCEPT
                     !.paintPass = [target |-> paintTarget, previous |-> Texture("L")],
                     !.blurPass = [target |-> "L", source |-> Texture(read(swapped))],
                     !.quadMaterial = "blur",
                     !.renderTarget = "null"]
             /\ store' = [store EXCEPT
                            !.uniformsRef.uVelocityField = Texture(read(swapped))]
             /\ mvFrames' = mvFrames + 1
             /\ mvRaf' = TRUE

\* handleResize of MotionVectorMap
motionHandleResize(w, h) ==
    IF ~mvReady
    THEN UNCHANGED <<highResPingPong, lowResTarget, mvUniforms, mvRenderer>>
    ELSE /\ mvRenderer' = [mvRenderer EXCEPT !.size = <<w, h>>]
         /\ highResPingPong' = setSize(highResPingPong, FloorDiv(w, 4), FloorDiv(h, 4))
         /\ lowResTarget' = <<FloorDiv(w, 8), FloorDiv(h, 8)>>
         /\ mvUniforms' = [mvUniforms EXCEPT
                             !.paint.uResolution = Res(w, h),
                             !.blur.uResolution = Res(w, h),
                             !.distortion.uResolution = <<FromInt(w), FromInt(h)>>]

(***************************************************************************)
(* DistortionLayer                                                         *)
(***************************************************************************)

\* as for MotionVectorMap, initScene runs on a canvas the effect has created
dlReady == TRUE

initialDistortionUniforms(w, h) ==
    [ uVelocityField |-> "null",
      uBlueNoise     |-> 1,
      uTime          |-> F0,
      uResolution    |-> <<FromInt(w), FromInt(h)>>,
      size           |-> <<w, h>> ]

\* animate(time) of DistortionLayer
distortionAnimate(time) ==
    IF ~dlReady
    THEN dlRaf' = FALSE /\ UNCHANGED <<dlFrames, dlUniforms>>
    ELSE IF ~dlEnabled
    THEN dlRaf' = TRUE /\ UNCHANGED <<dlFrames, dlUniforms>>
    ELSE /\ dlUniforms' =
              [dlUniforms EXCEPT
                 !.uTime = FMul(FromInt(time), D0001),
                 !.uVelocityField =
                     IF store.uniformsRef.uVelocityField # "undefined"
                     THEN store.uniformsRef.uVelocityField
                     ELSE dlUniforms.uVelocityField]
         /\ dlFrames' = dlFrames + 1
         /\ dlRaf' = TRUE

\* handleResize of DistortionLayer
distortionHandleResize(w, h) ==
    IF ~dlReady THEN UNCHANGED dlUniforms
    ELSE dlUniforms' = [dlUniforms EXCEPT !.size = <<w, h>>,
                                          !.uResolution = <<FromInt(w), FromInt(h)>>]

(***************************************************************************)
(* Mounting and teardown                                                   *)
(***************************************************************************)

Components == {"ScrollController", "MotionVectorMap", "DistortionLayer"}

\* what MotionVectorMap's cleanup disposes: the renderer, the two targets of
\* the ping-pong pair, the low-resolution target and the three materials
motionDisposed ==
    { "mv.renderer", "mv.targetA", "mv.targetB", "mv.lowResTarget",
      "mv.paintMaterial", "mv.blurMaterial", "mv.distortionMaterial" }

\* what initScene and initRenderTargets of MotionVectorMap allocate, the
\* blue-noise texture aside
motionAllocated == motionDisposed \cup {"mv.geometry"}

\* what DistortionLayer's cleanup disposes
distortionDisposed == {"dl.renderer", "dl.material"}

\* what initScene of DistortionLayer allocates, the blue-noise texture aside
distortionAllocated == distortionDisposed \cup {"dl.geometry"}

dispose(resources) ==
    gpu' = [r \in DOMAIN gpu |-> IF r \in resources THEN "disposed" ELSE gpu[r]]

\* the cleanup of MotionVectorMap's effect
motionCleanup ==
    /\ mvRaf' = FALSE
    /\ dispose(motionDisposed)
    /\ disposeBlueNoise

\* the cleanup of DistortionLayer's effect
distortionCleanup ==
    /\ dlRaf' = FALSE
    /\ dispose(distortionDisposed)

\* the cleanup of ScrollController's scroll effect:
\* cancelAnimationFrame(rafRef.current) cancels the callback of the last
\* handleScroll call, if it has not run
scrollCleanup == decayPending' = IF decayPending > 0 THEN decayPending - 1 ELSE 0

\* no frame is running
NoFrame == [queue |-> <<>>, log |-> <<>>]

(***************************************************************************)
(* rewriteVertexShader: the morph logic it generates                       *)
(***************************************************************************)

\* GLSL floor, fract and mix
FFloor(a) ==
    IF a.c # "fin" \/ a.e >= 0 THEN a
    ELSE IF -a.e > 2 * MantissaBits THEN FromInt(IF a.m < 0 THEN -1 ELSE 0)
    ELSE FromInt(a.m \div Pow2(-a.e))

fract(x) == FSub(x, FFloor(x))

mix(x, y, a) == FAdd(FMul(x, FSub(F1, a)), FMul(y, a))

\* one coordinate of one particle in keyframe i, i from 0
positionTarget(i) == FromInt(i * i - 3)

\* the chain testing scaledProgress <= i + 1
morphBranchInclusive(K, scaledProgress) ==
    FirstOr({ i \in 0..(K - 2) : FLe(scaledProgress, FromInt(i + 1)) }, K - 1)

\* the branch of the generated if / else-if chain that runs: the first i in
\* 0..K-2 with scaledProgress < i + 1, or K - 1 for the final else
morphBranch(K, scaledProgress) ==
    FirstOr({ i \in 0..(K - 2) : FLt(scaledProgress, FromInt(i + 1)) }, K - 1)

\* the mix that branch performs
morphSelect(K, branch, progress) ==
    IF branch <= K - 2
    THEN [from |-> branch, to |-> branch + 1, factor |-> progress]
    ELSE [from |-> K - 2, to |-> K - 1, factor |-> F1]

\* newPosition after the generated block
morphValue(sel) ==
    [ from |-> sel.from, to |-> sel.to, factor |-> sel.factor,
      newPosition |-> mix(positionTarget(sel.from), positionTarget(sel.to), sel.factor) ]

morphScaled(K, scaledProgress) ==
    morphValue(morphSelect(K, morphBranch(K, scaledProgress), fract(scaledProgress)))

\* the generated block for K keyframes, run with uMorphProgress
morphLogic(K, uMorphProgress) == morphScaled(K, FMul(uMorphProgress, FromInt(K - 1)))

(***************************************************************************)
(* GPUCursor                                                               *)
(***************************************************************************)

Axes == {"x", "y"}

\* the spring force without the damping
springVelocityUndamped(velocity, current, target) ==
    FAdd(velocity, FMul(FSub(target, current), D006))

\* velocityRef of one axis after the spring force and the damping
springVelocity(velocity, current, target) ==
    FMul(FAdd(velocity, FMul(FSub(target, current), D006)), D075)

\* the bookkeeping of one axis when the target changes: the signed distance
\* then, the side of the target the cursor is on, the largest distance of
\* the present and of the previous excursion, and the crossings so far
heldFrom(distance) ==
    [ start |-> distance, side |-> Sgn(distance.m), cur |-> FAbs(distance),
      prev |-> FAbs(distance), crossings |-> 0 ]

\* the bookkeeping of one axis after a frame that left the cursor at the
\* given signed distance from the target
heldAfter(h, distance) ==
    IF Sgn(distance.m) # 0 /\ Sgn(distance.m) # h.side
    THEN [h EXCEPT !.side = Sgn(distance.m), !.prev = h.cur, !.cur = FAbs(distance),
                   !.crossings = h.crossings + 1]
    ELSE [h EXCEPT !.cur = FMax(h.cur, FAbs(distance))]

\* handleMouseMove of GPUCursor: client pixels to world-space coordinates
cursorHandleMouseMove(clientX, clientY) ==
    gcTargetRef' =
        [ x |-> FMul(FMul(FSub(FMul(FDiv(FromInt(clientX), FromInt(innerWidth)),
                                    FromInt(2)),
                               F1),
                          FDiv(FromInt(innerWidth), FromInt(innerHeight))),
                     FromInt(8)),
          y |-> FAdd(FMul(FNeg(FDiv(FromInt(clientY), FromInt(innerHeight))), FromInt(2)),
                     F1) ]

\* animateCursor putting the cursor on the target at once
animateCursorSnap ==
    /\ gcVelocityRef' = gcVelocityRef
    /\ gcCurrentRef' = gcTargetRef
    /\ store' = setCursorPosition(store, gcTargetRef.x, gcTargetRef.y)
    /\ gcRaf' = TRUE

\* animateCursor
animateCursor ==
    /\ gcVelocityRef' =
          [a \in Axes |-> springVelocity(gcVelocityRef[a], gcCurrentRef[a], gcTargetRef[a])]
    /\ gcCurrentRef' = [a \in Axes |-> FAdd(gcCurrentRef[a], gcVelocityRef'[a])]
    /\ store' = setCursorPosition(
                    [store EXCEPT !.uniformsRef.uCursorPosition =
                                      <<gcCurrentRef'.x, gcCurrentRef'.y>>],
                    gcCurrentRef'.x, gcCurrentRef'.y)
    /\ gcRaf' = TRUE

(***************************************************************************)
(* Bounds and inputs                                                       *)
(***************************************************************************)

MaxScrolls == 2

MaxFrames == 2

\* ms between two animation frames
FrameDeltas == {16}

\* whether React had attached the container when the effect ran initScene
ContainerAttached == BOOLEAN

InnerHeights == {800}

InnerWidths == {1280}

\* the size both layers request in initScene, and the sizes a caller may pass
DefaultNoiseSize == 64

NoiseSizes == {32, DefaultNoiseSize}

\* textures generateBlueNoise may create in one run
MaxTextures == 4

\* animation frames and pointer moves of one GPUCursor run
MaxCursorFrames == 40

MaxMoves == 1

\* keyframe counts, from 2, and the grid of morph progress values in [0, 1]
MaxKeyframes == 4

MorphSteps == 36

MorphProgresses == { FDiv(FromInt(j), FromInt(MorphSteps)) : j \in 0..MorphSteps }

\* whether the device reports a coarse pointer
PointerCoarse == BOOLEAN

\* viewport sizes a resize event may report
Viewports == {<<1280, 800>>, <<1023, 601>>}

\* pointer positions a mousemove event may report, client pixels
MousePoints == {<<0, 0>>, <<512, 300>>, <<1000, 600>>}

\* documentElement.scrollHeight: no scrollable range, or 1000 px of it
ScrollHeights == {800, 1800}

\* offsets a scroll event may report, as fractions (percent) of the range
ScrollPercents == {0, 15, 50, 100}

\* Date.now() - lastScrollTime at a scroll event, ms
DeltaTimes == {0, 16}

\* a finer choice of offsets: a section boundary, just behind it, near a
\* section's end, the middle of a section, and both ends of the page
FineScrollPercents == {0, 15, 16, 28, 50, 100}

\* and of timestamps: the clock set back, an equal timestamp, 1 ms, a frame
FineDeltaTimes == {-5, 0, 1, 16}

Max0(n) == IF n < 0 THEN 0 ELSE n

ScrollOffsets == { (Max0(scrollHeight - innerHeight) * p) \div 100 : p \in ScrollPercents }

FineScrollOffsets ==
    { (Max0(scrollHeight - innerHeight) * p) \div 100 : p \in FineScrollPercents }

(***************************************************************************)
(* Actions                                                                 *)
(***************************************************************************)

NoCall == [fn |-> "none", arg |-> 0, res |-> 0]

\* the state once the providers and components are mounted and the first
\* animation frame has run the decay callback of the mount-time handleScroll(),
\* which publishes the zeros the store already holds
Mounted ==
    /\ store = [state |-> defaultState, uniformsRef |-> defaultUniforms]
    /\ scrollY = 0
    /\ innerHeight \in InnerHeights
    /\ scrollHeight \in ScrollHeights
    /\ lastScrollY = 0
    /\ lastScrollTime = 0
    /\ velocityRef = F0
    /\ smoothedVelocityRef = F0
    /\ isActiveRef = TRUE
    /\ decayPending = 0
    /\ scrollCount = 0
    /\ scrollTargetRef = F0
    /\ clReady \in ContainerAttached
    /\ clRaf = TRUE
    /\ clFrames = 0
    /\ smoothedCursorRef = [x |-> F0, y |-> F0]
    /\ clSmoothedVelocityRef = F0
    /\ targetCalmRef = F0
    /\ currentCalmRef = F0
    /\ clUniforms = createUniforms
    /\ cameraPosition = Vec(F0, F0, FromInt(14))
    /\ cameraLookAt = Vec(F0, F0, F0)
    /\ innerWidth \in InnerWidths
    /\ clSize = [width |-> innerWidth, height |-> innerHeight,
                 aspect |-> FDiv(FromInt(innerWidth), FromInt(innerHeight))]
    /\ mvRaf = TRUE
    /\ mvFrames = 0
    /\ highResPingPong = newPingPong(FloorDiv(innerWidth, 4), FloorDiv(innerHeight, 4))
    /\ lowResTarget = <<FloorDiv(innerWidth, 8), FloorDiv(innerHeight, 8)>>
    /\ mouseRef = [x |-> F0, y |-> F0]
    /\ prevMouseRef = [x |-> F0, y |-> F0]
    /\ mvVelocityRef = [x |-> F0, y |-> F0]
    /\ mvUniforms = initialMotionUniforms(innerWidth, innerHeight)
    /\ mvRenderer = initialMotionRenderer(innerWidth, innerHeight)
    /\ dlRaf = TRUE
    /\ dlFrames = 0
    /\ dlUniforms = initialDistortionUniforms(innerWidth, innerHeight)
    /\ blueNoiseTextures = <<[width |-> DefaultNoiseSize, disposed |-> FALSE]>>
    /\ cachedBlueNoise = 1
    /\ issuedSinceDispose = [size \in NoiseSizes |-> IF size = DefaultNoiseSize THEN {1} ELSE {}]
    /\ gcTargetRef = [a \in Axes |-> F0]
    /\ gcCurrentRef = [a \in Axes |-> F0]
    /\ gcVelocityRef = [a \in Axes |-> F0]
    /\ gcFrames = 0
    /\ gcMoves = 0
    /\ pointer = <<0, 0>>
    /\ held = [frames |-> 0, fromRest |-> TRUE, axis |-> [a \in Axes |-> heldFrom(F0)]]
    /\ mounted = Components
    /\ gpu = [r \in motionAllocated \cup distortionAllocated |-> "live"]
    /\ frame = NoFrame

\* the enabled props at their defaults
DefaultProps == mvEnabled = TRUE /\ dlEnabled = TRUE

\* the mount effect starting the loop on every device
CursorMountedAlways(coarse) ==
    /\ isTouch = coarse
    /\ gcRaf = TRUE
    /\ rafQueue = <<"CanvasLayer.animate", "GPUCursor.animateCursor">>

\* GPUCursor's mount effect: on a coarse pointer it returns before it
\* schedules animateCursor and installs the mousemove listener
\* The callbacks registered for the first frame are in the order the mount
\* effects ran, the order of the components in AppContent: CanvasLayer's
\* animate, then GPUCursor's animateCursor.
CursorMounted(coarse) ==
    /\ isTouch = coarse
    /\ gcRaf = ~coarse
    /\ rafQueue = IF coarse THEN <<"CanvasLayer.animate">>
                  ELSE <<"CanvasLayer.animate", "GPUCursor.animateCursor">>

\* a device with a fine pointer
FinePointer == CursorMounted(FALSE)

Init == Mounted /\ DefaultProps /\ FinePointer /\ call = NoCall

\* A scroll event: the window reports offset y, dt ms after the last handled
\* one, and the two scroll listeners run.
ScrollEventAt(y, dt) ==
    /\ scrollCount < MaxScrolls
    /\ scrollY' = y
    /\ handleScroll(y, dt)
    /\ morphHandleScroll(y)
    /\ scrollCount' = scrollCount + 1
    /\ UNCHANGED <<scrollHeight, isActiveRef, canvasVars, renderVars, noiseVars, cursorVars, lifeVars, callVars>>

ScrollEvent == \E y \in ScrollOffsets, dt \in DeltaTimes : ScrollEventAt(y, dt)

\* A scroll event of a forward pass: the offset does not go back.
ForwardScrollEvent ==
    \E y \in ScrollOffsets, dt \in DeltaTimes : y >= scrollY /\ ScrollEventAt(y, dt)

\* An animation frame runs one pending decay callback.
DecayTick ==
    /\ decayPending > 0
    /\ decayCallback
    /\ decayPending' = decayPending - 1
    /\ UNCHANGED <<windowVars, lastScrollY, lastScrollTime, isActiveRef, scrollCount,
                   morphVars, canvasVars, renderVars, noiseVars, cursorVars, lifeVars, callVars>>

VisibilityChange ==
    /\ \E visible \in BOOLEAN :
          /\ visible # isActiveRef
          /\ handleVisibilityChange(visible)
    /\ UNCHANGED <<storeVars, windowVars, lastScrollY, lastScrollTime, velocityRef,
                   smoothedVelocityRef, decayPending, scrollCount, morphVars,
                   canvasVars, renderVars, noiseVars, cursorVars, lifeVars, callVars>>

\* An animation frame runs CanvasLayer's animate.
CanvasFrame ==
    /\ clRaf
    /\ clFrames < MaxFrames
    /\ \E d \in FrameDeltas : animate((clFrames + 1) * d)
    /\ UNCHANGED <<windowVars, scrollVars, morphVars, clReady, renderVars, noiseVars, cursorVars, lifeVars, callVars>>

Next == ScrollEvent \/ DecayTick \/ VisibilityChange \/ CanvasFrame

Spec == Init /\ [][Next]_vars

\* One forward scroll pass: as Spec, with scroll offsets that never go back.
ForwardNext == ForwardScrollEvent \/ DecayTick \/ VisibilityChange \/ CanvasFrame

ForwardSpec == Init /\ [][ForwardNext]_vars

(***************************************************************************)
(* The scroll controller alone, on a finer choice of offsets               *)
(***************************************************************************)

FineScrollEvent ==
    \E y \in FineScrollOffsets, dt \in FineDeltaTimes : ScrollEventAt(y, dt)

ScrollNext == FineScrollEvent \/ DecayTick \/ VisibilityChange

ScrollSpec == Init /\ [][ScrollNext]_vars

(***************************************************************************)
(* The renderers' frame loops, pointer moves and viewport resizes          *)
(***************************************************************************)

\* An animation frame runs MotionVectorMap's animate.
MotionFrame ==
    /\ mvRaf
    /\ mvFrames < MaxFrames
    /\ \E d \in FrameDeltas : motionAnimate((mvFrames + 1) * d)
    /\ UNCHANGED <<windowVars, scrollVars, morphVars, canvasVars, viewportVars, clSize,
                   mvEnabled, lowResTarget, mouseRef, distortionVars, noiseVars, cursorVars, lifeVars, callVars>>

\* An animation frame runs DistortionLayer's animate.
DistortionFrame ==
    /\ dlRaf
    /\ dlFrames < MaxFrames
    /\ \E d \in FrameDeltas : distortionAnimate((dlFrames + 1) * d)
    /\ UNCHANGED <<storeVars, windowVars, scrollVars, morphVars, canvasVars, viewportVars,
                   clSize, motionVars, dlEnabled, noiseVars, cursorVars, lifeVars, callVars>>

\* A mousemove event.
MouseMove ==
    /\ \E pt \in MousePoints : motionHandleMouseMove(pt[1], pt[2])
    /\ UNCHANGED <<storeVars, windowVars, scrollVars, morphVars, canvasVars, viewportVars,
                   clSize, mvEnabled, mvRaf, mvFrames, highResPingPong, lowResTarget,
                   prevMouseRef, mvVelocityRef, mvUniforms, mvRenderer, distortionVars,
                   noiseVars, cursorVars, lifeVars, callVars>>

\* A resize event: the window reports a new size and the three resize
\* listeners run.
Resize ==
    /\ \E vp \in Viewports :
          /\ <<innerWidth, innerHeight>> # vp
          /\ innerWidth' = vp[1]
          /\ innerHeight' = vp[2]
          /\ canvasHandleResize(vp[1], vp[2])
          /\ motionHandleResize(vp[1], vp[2])
          /\ distortionHandleResize(vp[1], vp[2])
    /\ UNCHANGED <<storeVars, windowVars, scrollVars, morphVars, canvasVars, mvEnabled,
                   mvRaf, mvFrames, mouseRef, prevMouseRef, mvVelocityRef, dlEnabled,
                   dlRaf, dlFrames, noiseVars, cursorVars, lifeVars, callVars>>

RenderNext == CanvasFrame \/ MotionFrame \/ DistortionFrame \/ MouseMove \/ Resize

\* the layers mounted with either value of their enabled prop
RenderInit ==
    /\ Mounted
    /\ mvEnabled \in BOOLEAN
    /\ dlEnabled \in BOOLEAN
    /\ FinePointer
    /\ call = NoCall

RenderSpec == RenderInit /\ [][RenderNext]_vars

(***************************************************************************)
(* The cursor controller: pointer moves and its animation frames           *)
(***************************************************************************)

CursorFrameRest ==
    UNCHANGED <<windowVars, scrollVars, morphVars, canvasVars, renderVars, noiseVars,
                lifeVars, callVars>>

\* A pointer-move event at a client position; the listener runs if the
\* mount effect installed it.
PointerMove ==
    /\ gcMoves < MaxMoves
    /\ gcMoves' = gcMoves + 1
    /\ \E pt \in MousePoints :
          /\ pointer' = pt
          /\ IF isTouch
             THEN UNCHANGED <<gcTargetRef, held>>
             ELSE /\ cursorHandleMouseMove(pt[1], pt[2])
                  /\ held' =
                       IF gcTargetRef' = gcTargetRef THEN held
                       ELSE [ frames   |-> 0,
                              fromRest |-> \A a \in Axes : gcVelocityRef[a] = F0,
                              axis     |-> [a \in Axes |->
                                  heldFrom(FSub(gcTargetRef'[a], gcCurrentRef[a]))] ]
    /\ UNCHANGED <<store, isTouch, gcCurrentRef, gcVelocityRef, gcRaf, gcFrames>>
    /\ CursorFrameRest

\* The browser runs an animation frame; animateCursor runs if it is scheduled.
CursorFrame ==
    /\ gcFrames < MaxCursorFrames
    /\ gcFrames' = gcFrames + 1
    /\ IF gcRaf
       THEN /\ animateCursor
            /\ held' = [held EXCEPT
                          !.frames = held.frames + 1,
                          !.axis = [a \in Axes |->
                              heldAfter(held.axis[a],
                                        FSub(gcTargetRef[a], gcCurrentRef'[a]))]]
       ELSE UNCHANGED <<store, gcVelocityRef, gcCurrentRef, gcRaf, held>>
    /\ UNCHANGED <<isTouch, gcTargetRef, gcMoves, pointer>>
    /\ CursorFrameRest

CursorNext == PointerMove \/ CursorFrame

\* the page with its canvas container attached and a scrollable document;
\* the cursor controller reads neither
CursorInit ==
    /\ Mounted
    /\ clReady
    /\ scrollHeight > innerHeight
    /\ DefaultProps
    /\ \E coarse \in PointerCoarse : CursorMounted(coarse)
    /\ call = NoCall

CursorSpec == CursorInit /\ [][CursorNext]_vars

(***************************************************************************)
(* The generated morph logic, run directly                                 *)
(***************************************************************************)

MorphInit ==
    /\ Mounted
    /\ clReady
    /\ scrollHeight > innerHeight
    /\ DefaultProps
    /\ FinePointer
    /\ \E K \in 2..MaxKeyframes, u \in MorphProgresses :
          call = [fn |-> "shader", arg |-> <<K, u>>, res |-> 0]

RunMorphLogic ==
    /\ call.fn = "shader"
    /\ call' = [fn |-> "morphLogic", arg |-> call.arg,
                res |-> morphLogic(call.arg[1], call.arg[2])]
    /\ UNCHANGED <<storeVars, windowVars, scrollVars, morphVars, canvasVars, renderVars,
                   noiseVars, cursorVars, lifeVars>>

MorphNext == RunMorphLogic

MorphSpec == MorphInit /\ [][MorphNext]_vars

(***************************************************************************)
(* The camera interpolation, run directly                                  *)
(***************************************************************************)

\* section indices, with indices on both sides of the table
CameraIndices == (0 - 2)..(Len(sectionCameraPositions) + 1)

BlendSteps == 20

Blends == { FDiv(FromInt(j), FromInt(BlendSteps)) : j \in 0..BlendSteps }

CameraInit ==
    /\ Mounted
    /\ clReady
    /\ scrollHeight > innerHeight
    /\ DefaultProps
    /\ FinePointer
    /\ \E idx \in CameraIndices, b \in Blends :
          call = [fn |-> "camera", arg |-> <<idx, b>>, res |-> 0]

RunCameraTarget ==
    /\ call.fn = "camera"
    /\ call' = [fn |-> "cameraTarget", arg |-> call.arg,
                res |-> cameraTarget(call.arg[1], call.arg[2])]
    /\ UNCHANGED <<storeVars, windowVars, scrollVars, morphVars, canvasVars, renderVars,
                   noiseVars, cursorVars, lifeVars>>

CameraNext == RunCameraTarget

CameraSpec == CameraInit /\ [][CameraNext]_vars

(***************************************************************************)
(* The connection lines of initScene, built directly                       *)
(***************************************************************************)

particleCount == 4

MaxCoordinate == 6

ParticlePositions == [1..particleCount -> 0..MaxCoordinate]

ConnectInit ==
    /\ Mounted
    /\ clReady
    /\ scrollHeight > innerHeight
    /\ DefaultProps
    /\ FinePointer
    /\ \E positions \in ParticlePositions :
          call = [fn |-> "scene", arg |-> positions, res |-> 0]

RunConnections ==
    /\ call.fn = "scene"
    /\ call' = [fn |-> "connections", arg |-> call.arg,
                res |-> [lines |-> connections(call.arg),
                         candidates |-> candidateConnections(call.arg)]]
    /\ UNCHANGED <<storeVars, windowVars, scrollVars, morphVars, canvasVars, renderVars,
                   noiseVars, cursorVars, lifeVars>>

ConnectNext == RunConnections

ConnectSpec == ConnectInit /\ [][ConnectNext]_vars

(***************************************************************************)
(* Teardown of the scroll controller and of the two render layers          *)
(***************************************************************************)

\* A scroll event while ScrollController's listener is installed.
MountedScrollEvent ==
    /\ "ScrollController" \in mounted
    /\ ScrollEvent

\* ScrollController unmounts: the cleanup of its scroll effect runs.
ScrollTeardown ==
    /\ "ScrollController" \in mounted
    /\ mounted' = mounted \ {"ScrollController"}
    /\ scrollCleanup
    /\ UNCHANGED <<storeVars, windowVars, lastScrollY, lastScrollTime, velocityRef,
                   smoothedVelocityRef, isActiveRef, scrollCount, morphVars, canvasVars,
                   renderVars, noiseVars, cursorVars, gpu, rafQueue, frame, callVars>>

\* MotionVectorMap unmounts: the cleanup of its effect runs.
MotionTeardown ==
    /\ "MotionVectorMap" \in mounted
    /\ mounted' = mounted \ {"MotionVectorMap"}
    /\ motionCleanup
    /\ issuedSinceDispose' = [size \in NoiseSizes |-> {}]
    /\ UNCHANGED <<storeVars, windowVars, scrollVars, morphVars, canvasVars, viewportVars,
                   clSize, mvEnabled, mvFrames, highResPingPong, lowResTarget, mouseRef,
                   prevMouseRef, mvVelocityRef, mvUniforms, mvRenderer, distortionVars,
                   cursorVars, rafQueue, frame, callVars>>

\* DistortionLayer unmounts: the cleanup of its effect runs.
DistortionTeardown ==
    /\ "DistortionLayer" \in mounted
    /\ mounted' = mounted \ {"DistortionLayer"}
    /\ distortionCleanup
    /\ UNCHANGED <<storeVars, windowVars, scrollVars, morphVars, canvasVars, viewportVars,
                   clSize, motionVars, dlEnabled, dlFrames, dlUniforms, noiseVars,
                   cursorVars, rafQueue, frame, callVars>>

TeardownNext ==
    \/ MountedScrollEvent
    \/ DecayTick
    \/ DistortionFrame
    \/ ScrollTeardown
    \/ MotionTeardown
    \/ DistortionTeardown

TeardownSpec == Init /\ [][TeardownNext]_vars

(***************************************************************************)
(* One animation frame: the registered callbacks in registration order     *)
(***************************************************************************)

\* The browser starts a frame: it takes the callbacks registered so far and
\* will run them in the order they were registered.
FrameStart ==
    /\ frame.queue = <<>>
    /\ rafQueue # <<>>
    /\ gcFrames < MaxFrames
    /\ frame' = [queue |-> rafQueue, log |-> <<>>]
    /\ rafQueue' = <<>>
    /\ UNCHANGED <<storeVars, windowVars, scrollVars, morphVars, canvasVars, renderVars,
                   noiseVars, cursorVars, mounted, gpu, callVars>>

\* The frame runs CanvasLayer's animate, which reads the mirror's
\* uCursorPosition and registers itself for the next frame.
RunCanvasCallback ==
    /\ frame.queue # <<>>
    /\ Head(frame.queue) = "CanvasLayer.animate"
    /\ \E d \in FrameDeltas : animate((clFrames + 1) * d)
    /\ frame' = [queue |-> Tail(frame.queue),
                 log   |-> IF clReady
                           THEN Append(frame.log, [by |-> "CanvasLayer.animate",
                                                   op |-> "read uCursorPosition"])
                           ELSE frame.log]
    /\ rafQueue' = IF clRaf' THEN Append(rafQueue, "CanvasLayer.animate") ELSE rafQueue
    /\ UNCHANGED <<windowVars, scrollVars, morphVars, clReady, renderVars, noiseVars,
                   cursorVars, mounted, gpu, callVars>>

\* The frame runs GPUCursor's animateCursor, which writes the mirror's
\* uCursorPosition and registers itself for the next frame.
RunCursorCallback ==
    /\ frame.queue # <<>>
    /\ Head(frame.queue) = "GPUCursor.animateCursor"
    /\ animateCursor
    /\ gcFrames' = gcFrames + 1
    /\ held' = [held EXCEPT
                  !.frames = held.frames + 1,
                  !.axis = [a \in Axes |->
                      heldAfter(held.axis[a], FSub(gcTargetRef[a], gcCurrentRef'[a]))]]
    /\ frame' = [queue |-> Tail(frame.queue),
                 log   |-> Append(frame.log, [by |-> "GPUCursor.animateCursor",
                                              op |-> "write uCursorPosition"])]
    /\ rafQueue' = Append(rafQueue, "GPUCursor.animateCursor")
    /\ UNCHANGED <<isTouch, gcTargetRef, gcMoves, pointer, windowVars, scrollVars,
                   morphVars, canvasVars, renderVars, noiseVars, mounted, gpu, callVars>>

\* A pointer move between two frames.
IdlePointerMove ==
    /\ frame.queue = <<>>
    /\ PointerMove

OrderNext == FrameStart \/ RunCanvasCallback \/ RunCursorCallback \/ IdlePointerMove

OrderSpec == Init /\ [][OrderNext]_vars

(***************************************************************************)
(* The blue-noise generator, called directly                               *)
(***************************************************************************)

NoiseFrame ==
    UNCHANGED <<storeVars, windowVars, scrollVars, morphVars, canvasVars, renderVars,
                cursorVars, lifeVars>>

CallGenerateBlueNoise ==
    /\ Len(blueNoiseTextures) < MaxTextures
    /\ \E size \in NoiseSizes :
          /\ generateBlueNoise(size)
          /\ call' = [fn |-> "generateBlueNoise", arg |-> size,
                      res |-> generatedTexture(size)]
          /\ issuedSinceDispose' =
                [issuedSinceDispose EXCEPT ![size] = @ \cup {generatedTexture(size)}]
    /\ NoiseFrame

CallDisposeBlueNoise ==
    /\ disposeBlueNoise
    /\ call' = [fn |-> "disposeBlueNoise", arg |-> 0, res |-> 0]
    /\ issuedSinceDispose' = [size \in NoiseSizes |-> {}]
    /\ NoiseFrame

BlueNoiseNext == CallGenerateBlueNoise \/ CallDisposeBlueNoise

BlueNoiseSpec == Init /\ [][BlueNoiseNext]_vars

(***************************************************************************)
(* The store's setters, called directly                                    *)
(***************************************************************************)

\* values a caller passes to the numeric setters
ProgressValues == {F0, D05, F1}

CursorValues == {F0, FromInt(-8)}

\* the six sections and an identifier the store does not know
SectionIds == {"home", "about", "skills", "projects", "experience", "contact", "blog"}

Called(fn, arg) == call' = [fn |-> fn, arg |-> arg, res |-> 0]

StoreFrame ==
    UNCHANGED <<windowVars, scrollVars, morphVars, canvasVars, renderVars, noiseVars, cursorVars, lifeVars>>

CallSetSection ==
    \E id \in SectionIds :
        store' = setSection(store, id) /\ Called("setSection", id) /\ StoreFrame

CallSetScrollProgress ==
    \E v \in ProgressValues :
        store' = setScrollProgress(store, v) /\ Called("setScrollProgress", v) /\ StoreFrame

CallSetSectionProgress ==
    \E v \in ProgressValues :
        store' = setSectionProgress(store, v) /\ Called("setSectionProgress", v) /\ StoreFrame

CallSetCursorPosition ==
    \E x \in CursorValues, y \in CursorValues :
        /\ store' = setCursorPosition(store, x, y)
        /\ Called("setCursorPosition", <<x, y>>)
        /\ StoreFrame

CallSetScrollVelocity ==
    \E v \in ProgressValues :
        store' = setScrollVelocity(store, v) /\ Called("setScrollVelocity", v) /\ StoreFrame

CallSetTransitionProgress ==
    \E v \in ProgressValues :
        /\ store' = setTransitionProgress(store, v)
        /\ Called("setTransitionProgress", v)
        /\ StoreFrame

StoreNext ==
    \/ CallSetSection
    \/ CallSetScrollProgress
    \/ CallSetSectionProgress
    \/ CallSetCursorPosition
    \/ CallSetScrollVelocity
    \/ CallSetTransitionProgress

StoreSpec == Init /\ [][StoreNext]_vars

(***************************************************************************)
(* getCurrentSection, applied to one scroll fraction                       *)
(***************************************************************************)

FractionSteps == 200

\* the section boundaries inside (0, 1]
Boundaries == { SECTIONS[i].end : i \in 1..Len(SECTIONS) }

\* a grid over [0, 1], the boundaries, and the floats next to each boundary
Fractions ==
    { FDiv(FromInt(i), FromInt(FractionSteps)) : i \in 0..FractionSteps }
        \cup Boundaries
        \cup { FPred(b) : b \in Boundaries }
        \cup { FSucc(b) : b \in Boundaries \ {F1} }

SectionInit == Mounted /\ DefaultProps /\ FinePointer /\ \E f \in Fractions : call = [fn |-> "pending", arg |-> f, res |-> 0]

CallGetCurrentSection ==
    /\ call.fn = "pending"
    /\ call' = [fn |-> "getCurrentSection", arg |-> call.arg,
                res |-> getCurrentSection(call.arg)]
    /\ UNCHANGED <<storeVars, windowVars, scrollVars, morphVars, canvasVars, renderVars,
                   noiseVars, cursorVars, lifeVars>>

SectionNext == CallGetCurrentSection

SectionSpec == SectionInit /\ [][SectionNext]_vars

(***************************************************************************)
(* Properties                                                              *)
(***************************************************************************)

Mirror == store.uniformsRef

MaxOffset == Max0(scrollHeight - innerHeight)

\* C1: in a forward scroll pass (ForwardSpec) the mirror's uCalmFactor never
\* decreases from one step of the system to the next, whichever of
\* handleScroll, the decay callback and CanvasLayer's animate takes the step.
C1_CalmNeverDecreases ==
    [][FLe(Mirror.uCalmFactor, Mirror.uCalmFactor')]_vars

\* C2: the published scroll velocity relaxes to zero once scrolling stops.
\* Only handleScroll and its decay callback write the velocity, so when no
\* further scroll event arrives it can change only while a decay callback is
\* pending: whenever none is pending the published velocity must be zero
\* already, or it stays frozen at that value.
C2_VelocityRelaxesToZero ==
    decayPending = 0 =>
        /\ store.state.scrollVelocity = F0
        /\ Mirror.uScrollVelocity = F0

\* C4: the SECTIONS ranges partition [0,1] without gap or overlap; every
\* fraction f in [0,1] is in exactly one half-open range [start, end), except
\* f = 1, which is in none and which getCurrentSection resolves to the last
\* section, contact; for every other f getCurrentSection returns the one
\* section whose range holds f.
InRange(f, section) == FGe(f, section.start) /\ FLt(f, section.end)

Holders(f) == { i \in 1..Len(SECTIONS) : InRange(f, SECTIONS[i]) }

C4_SectionsPartition ==
    /\ SECTIONS[1].start = F0
    /\ SECTIONS[Len(SECTIONS)].end = F1
    /\ \A i \in 1..Len(SECTIONS) : FLt(SECTIONS[i].start, SECTIONS[i].end)
    /\ \A i \in 1..(Len(SECTIONS) - 1) : SECTIONS[i].end = SECTIONS[i + 1].start
    /\ call.fn \in {"pending", "getCurrentSection"} =>
          IF call.arg = F1 THEN Holders(call.arg) = {}
          ELSE Cardinality(Holders(call.arg)) = 1
    /\ call.fn = "getCurrentSection" =>
          IF call.arg = F1 THEN call.res.id = "contact"
          ELSE \A i \in Holders(call.arg) : call.res = SECTIONS[i]

\* getCurrentSection has resolved the fraction 1 to contact
C4_Witness ==
    /\ call.fn = "getCurrentSection"
    /\ call.arg = F1
    /\ call.res.id = "contact"

\* C5: the calm factor in the mirror and CanvasLayer's smoothed calm are in
\* [0, 0.9] in every reachable state.
InCalmRange(x) == FGe(x, F0) /\ FLe(x, D09)

C5_CalmInRange ==
    /\ InCalmRange(Mirror.uCalmFactor)
    /\ InCalmRange(currentCalmRef)
    /\ InCalmRange(clUniforms.uCalmFactor)

\* a state where the 0.9 ceiling is what bounds the published calm factor
\* (the raw target at the end of the page is 0.95) and the renderer's
\* smoothed calm has moved off zero
C5_Witness ==
    /\ Mirror.uScrollProgress = F1
    /\ Mirror.uSectionIndex = 5
    /\ FGt(currentCalmRef, F0)
    /\ clFrames > 0
    /\ lastScrollY = MaxOffset /\ MaxOffset > 0

\* C7: right after a setter of the store returns, the mirror field of that
\* setter holds the value passed (for setSection the index of the section in
\* the store's table, 0 for an identifier it does not know) and every other
\* mirror field is as it was before the call.
KnownSections == <<"home", "about", "skills", "projects", "experience", "contact">>

IndexOfSection(id) ==
    IF \E i \in 1..Len(KnownSections) : KnownSections[i] = id
    THEN (CHOOSE i \in 1..Len(KnownSections) : KnownSections[i] = id) - 1
    ELSE 0

MirrorKeeps(field) ==
    \A g \in (DOMAIN defaultUniforms) \ {field} :
        store'.uniformsRef[g] = store.uniformsRef[g]

MirrorSet(fn, field, value) ==
    call'.fn = fn => store'.uniformsRef[field] = value /\ MirrorKeeps(field)

C9_NoRangeReportsZero ==
    (scrollHeight - innerHeight <= 0) =>
        /\ store.state.scrollProgress = F0
        /\ Mirror.uScrollProgress = F0
        /\ IsFinite(scrollTargetRef)
        /\ scrollTargetRef = F0

\* C10: the handleScroll call of a scroll event that jumps from offset 0 to
\* the maximum offset publishes scrollProgress 1, the last section (contact,
\* index 5), sectionProgress 1 and transitionProgress 0, isTransitioning
\* false.
Teleport ==
    /\ isActiveRef
    /\ scrollY = 0
    /\ MaxOffset > 0
    /\ scrollY' = MaxOffset
    /\ scrollCount' = scrollCount + 1

C10_TeleportPublishesEnd ==
    [][Teleport =>
        /\ store'.state.scrollProgress = F1
        /\ store'.state.currentSection = "contact"
        /\ store'.uniformsRef.uSectionIndex = 5
        /\ store'.state.sectionProgress = F1
        /\ store'.state.transitionProgress = F0
        /\ store'.state.isTransitioning = FALSE]_vars


C6_PingPongDistinct ==
    /\ [](read(highResPingPong) # write(highResPingPong))
    /\ [][mvFrames' # mvFrames =>
            /\ read(highResPingPong') = write(highResPingPong)
            /\ write(highResPingPong') = read(highResPingPong)]_vars

C6_Witness ==
    /\ mvFrames = 1
    /\ highResPingPong.current = "B"
    /\ highResPingPong.sizeA = <<255, 150>>
    /\ mvRenderer.paintPass.target = "B"

\* C8: with no disposeBlueNoise in between, every generateBlueNoise call with
\* one size returns one texture, whatever other sizes were requested
C8_SameSizeSameInstance ==
    \A size \in NoiseSizes : Cardinality(issuedSinceDispose[size]) <= 1



\* the signed distance of the cursor from its target on one axis
CursorError(a) == FSub(gcTargetRef[a], gcCurrentRef[a])

\* C11: with the target held constant from rest, on each axis the cursor is
\* within 1% of the initial distance from the 28th frame on and stays there;
\* once it has passed the target its distance never exceeds a tenth of the
\* initial distance, and the largest distance of each excursion is smaller
\* than that of the excursion before it
C11_SpringSettles ==
    (~isTouch /\ held.fromRest) =>
        \A a \in Axes :
            /\ held.frames >= 28 =>
                   FLe(FAbs(CursorError(a)),
                       FMul(FAbs(held.axis[a].start), Dec(1, 100)))
            /\ held.axis[a].crossings >= 1 =>
                   /\ FLe(held.axis[a].cur, FMul(FAbs(held.axis[a].start), D01))
                   /\ FLt(held.axis[a].cur, held.axis[a].prev)

C11_Witness ==
    /\ held.fromRest
    /\ held.frames >= 36
    /\ held.axis["x"].crossings >= 2
    /\ held.axis["x"].start # F0

\* C12: a frame of animateCursor that starts at rest on an axis, with the
\* cursor off the target, leaves the cursor strictly between where it was
\* and the target
C12_NeverSnaps ==
    [][(gcRaf /\ gcFrames' # gcFrames) =>
         \A a \in Axes :
            (gcVelocityRef[a] = F0 /\ gcCurrentRef[a] # gcTargetRef[a]) =>
               IF FLt(gcCurrentRef[a], gcTargetRef[a])
               THEN FLt(gcCurrentRef[a], gcCurrentRef'[a])
                    /\ FLt(gcCurrentRef'[a], gcTargetRef[a])
               ELSE FGt(gcCurrentRef[a], gcCurrentRef'[a])
                    /\ FGt(gcCurrentRef'[a], gcTargetRef[a])]_vars

C12_Witness ==
    /\ held.fromRest
    /\ held.frames = 1
    /\ gcCurrentRef.x # F0
    /\ gcCurrentRef.x # gcTargetRef.x

\* C20: on a coarse pointer no animation loop runs, no listener moves the
\* target, and the store's cursorPosition and the mirror's uCursorPosition
\* stay at (0, 0) under any pointer moves and frames
C20_TouchDisablesCursor ==
    isTouch =>
        /\ ~gcRaf
        /\ gcTargetRef = [a \in Axes |-> F0]
        /\ store.state.cursorPosition = [x |-> F0, y |-> F0]
        /\ Mirror.uCursorPosition = <<F0, F0>>

C20_Witness ==
    /\ isTouch
    /\ gcMoves >= 1
    /\ pointer # <<0, 0>>
    /\ gcFrames >= 2


\* C13: a scroll event while the page is hidden leaves the store, the
\* mirror and handleScroll's registers as they were and schedules no decay
\* tick; a visibility change keeps all of them; and a scroll event while the
\* page is visible is handled again
C13_HiddenScrollChangesNothing ==
    [][/\ (~isActiveRef /\ scrollCount' # scrollCount) =>
            UNCHANGED <<store, lastScrollY, lastScrollTime, velocityRef,
                        smoothedVelocityRef, decayPending>>
       /\ isActiveRef' # isActiveRef =>
            UNCHANGED <<store, lastScrollY, lastScrollTime, velocityRef,
                        smoothedVelocityRef, decayPending, scrollCount>>
       /\ (isActiveRef /\ scrollCount' # scrollCount) =>
            /\ lastScrollY' = scrollY'
            /\ decayPending' = decayPending + 1
            /\ Mirror'.uScrollProgress =
                   calculateScrollProgress(scrollY', scrollHeight, innerHeight)]_vars

C13_Witness ==
    /\ ~isActiveRef
    /\ scrollCount >= 1
    /\ scrollY # lastScrollY
    /\ decayPending = 1


C17_CurrentSectionKnown ==
    \E i \in 1..Len(KnownSections) : store.state.currentSection = KnownSections[i]

\* C18: the store's isTransitioning is true exactly when its
\* transitionProgress is strictly between 0 and 1
C18_TransitioningIffStrictlyInside ==
    store.state.isTransitioning <=>
        (FGt(store.state.transitionProgress, F0) /\ FLt(store.state.transitionProgress, F1))

C18_Witness ==
    /\ store.state.isTransitioning
    /\ scrollCount >= 1
    /\ FGt(store.state.transitionProgress, D05)

\* C19: the published scroll velocity, in the store and in the mirror, is
\* always in [0, 1]
C19_VelocityInUnitRange ==
    /\ FGe(store.state.scrollVelocity, F0) /\ FLe(store.state.scrollVelocity, F1)
    /\ FGe(Mirror.uScrollVelocity, F0) /\ FLe(Mirror.uScrollVelocity, F1)

C19_Witness ==
    /\ scrollCount = 2
    /\ lastScrollTime = 1
    /\ decayPending = 1
    /\ FGt(smoothedVelocityRef, FromInt(800))
    /\ store.state.scrollVelocity = F1


\* C15: whenever the velocity-field targets exist, and so right after every
\* resize, both ping-pong targets are floor(w/4) x floor(h/4) and the
\* low-resolution target is floor(w/8) x floor(h/8) for the window's w, h
C15_TargetsFollowViewport ==
    mvReady =>
        /\ highResPingPong.sizeA = <<innerWidth \div 4, innerHeight \div 4>>
        /\ highResPingPong.sizeB = highResPingPong.sizeA
        /\ lowResTarget = <<innerWidth \div 8, innerHeight \div 8>>

C15_Witness ==
    /\ innerWidth = 1023
    /\ innerHeight = 601
    /\ highResPingPong.sizeB = <<255, 150>>
    /\ lowResTarget = <<127, 75>>
    /\ mvFrames >= 1


\* the scaled progress p * (K - 1) of a run of the morph logic
ScaledOf(c) == FMul(c.arg[2], FromInt(c.arg[1] - 1))

\* C14: for K keyframes and progress p, the generated logic gives keyframe 0
\* exactly at p = 0, keyframe K-1 exactly at p = 1, and for
\* i <= p*(K-1) < i+1 the mix of the adjacent keyframes i and i+1 with
\* factor fract(p*(K-1))
C14_MorphSelectsAdjacent ==
    call.fn = "morphLogic" =>
        /\ call.arg[2] = F0 => call.res.newPosition = positionTarget(0)
        /\ call.arg[2] = F1 => call.res.newPosition = positionTarget(call.arg[1] - 1)
        /\ \A i \in 0..(call.arg[1] - 2) :
              (FLe(FromInt(i), ScaledOf(call)) /\ FLt(ScaledOf(call), FromInt(i + 1))) =>
                 /\ call.res.from = i
                 /\ call.res.to = i + 1
                 /\ call.res.factor = FSub(ScaledOf(call), FromInt(i))
                 /\ call.res.newPosition =
                       FAdd(FMul(positionTarget(i), FSub(F1, call.res.factor)),
                            FMul(positionTarget(i + 1), call.res.factor))

C14_Witness ==
    /\ call.fn = "morphLogic"
    /\ call.arg[1] = 4
    /\ call.res.from = 1
    /\ call.res.to = 2
    /\ FGt(call.res.factor, F0)
    /\ FLt(call.res.factor, F1)
    /\ call.res.newPosition # positionTarget(1)
    /\ call.res.newPosition # positionTarget(2)

\* C22: after every completed MotionVectorMap frame the texture published in
\* the mirror as uVelocityField is the low-resolution target's texture, the
\* buffer the paint pass samples as uPreviousLowRes
C22_PublishedIsLowRes ==
    mvFrames >= 1 =>
        /\ Texture("L") = Mirror.uVelocityField
        /\ mvUniforms.paint.uPreviousLowRes = Mirror.uVelocityField

\* C28: in every MotionVectorMap frame the paint pass renders into one of
\* the ping-pong targets and samples only the low-resolution target, the
\* blur pass renders into the low-resolution target and samples only the
\* ping-pong target read() returns, neither samples the target it renders
\* into, and the texture published as uVelocityField when the frame starts
\* is not the target the paint pass renders into
C28_NoPassSamplesItsTarget ==
    [][mvFrames' # mvFrames =>
          /\ mvRenderer'.paintPass.target \in {"A", "B"}
          /\ mvRenderer'.paintPass.previous = Texture("L")
          /\ mvRenderer'.paintPass.previous # Texture(mvRenderer'.paintPass.target)
          /\ mvRenderer'.blurPass.target = "L"
          /\ mvRenderer'.blurPass.source = Texture(highResPingPong'.current)
          /\ mvRenderer'.blurPass.source # Texture(mvRenderer'.blurPass.target)
          /\ Texture(mvRenderer'.paintPass.target) # Mirror.uVelocityField]_vars

C28_Witness ==
    /\ mvFrames = 2
    /\ dlFrames >= 1
    /\ Mirror.uVelocityField = Texture("A")
    /\ dlUniforms.uVelocityField = Texture("B")
    /\ mvRenderer.paintPass.target = "A"

\* C24: the transition progress handleScroll publishes for intra-section
\* progress s is in [0, 1]; it is s / 0.15 below 0.15, 1 from 0.15 to 0.85,
\* and 1 - (s - 0.85) / 0.15 above 0.85; it is 0 at s = 0 and at s = 1
C24_TransitionRamp ==
    scrollCount >= 1 =>
        /\ FGe(store.state.transitionProgress, F0)
        /\ FLe(store.state.transitionProgress, F1)
        /\ FLt(store.state.sectionProgress, D015) =>
              store.state.transitionProgress = FDiv(store.state.sectionProgress, D015)
        /\ (FGe(store.state.sectionProgress, D015) /\ FLe(store.state.sectionProgress, D085)) =>
              store.state.transitionProgress = F1
        /\ FGt(store.state.sectionProgress, D085) =>
              store.state.transitionProgress =
                  FSub(F1, FDiv(FSub(store.state.sectionProgress, D085), D015))
        /\ store.state.sectionProgress = F0 => store.state.transitionProgress = F0
        /\ store.state.sectionProgress = F1 => store.state.transitionProgress = F0

\* C29: after a handleScroll call the mirror's uSectionIndex is the position
\* of the published currentSection in SECTIONS, the calm factor target was
\* computed with that index, and the store's section-to-index map gives
\* every section of SECTIONS its position
C29_SectionIndexAgrees ==
    /\ scrollCount >= 1 =>
          /\ \E i \in 1..Len(SECTIONS) :
                /\ SECTIONS[i].id = store.state.currentSection
                /\ Mirror.uSectionIndex = i - 1
          /\ Mirror.uCalmFactor =
                FMin(FAdd(FMul(store.state.scrollProgress, D07),
                          FMul(FromInt(Mirror.uSectionIndex), D005)),
                     D09)
    /\ \A i \in 1..Len(SECTIONS) : sectionMap(SECTIONS[i].id) = i - 1

C29_Witness ==
    /\ scrollCount = 2
    /\ store.state.currentSection = "contact"
    /\ Mirror.uSectionIndex = 5
    /\ lastScrollY # 0
    /\ Mirror.uCalmFactor = D09

\* the pose the table holds at the 0-based index i
PoseAt(i, res) ==
    /\ ~res.threw
    /\ res.pos = sectionCameraPositions[i + 1].pos
    /\ res.look = sectionCameraPositions[i + 1].target

\* for the indices of the table: the target at progress 0 is the section's
\* own pose, at progress 1 it is the next section's pose, and the last
\* section's target is its own pose at every progress
CameraContinuousInTable ==
    (call.fn = "cameraTarget" /\ hasPose(call.arg[1])) =>
        /\ call.arg[2] = F0 => PoseAt(call.arg[1], call.res)
        /\ (call.arg[2] = F1 /\ call.arg[1] <= 4) => PoseAt(call.arg[1] + 1, call.res)
        /\ call.arg[1] = 5 => PoseAt(5, call.res)

SegmentLength(c, seg) == dist(c.arg, seg[1], seg[2])

\* the candidates a connections call left out
Dropped(c) ==
    { c.res.candidates[n] : n \in 1..Len(c.res.candidates) }
        \ { c.res.lines[n] : n \in 1..Len(c.res.lines) }

\* the connection lines never exceed the cap
ConnectionsWithinCap ==
    call.fn = "connections" => Len(call.res.lines) <= maxConnections

\* C25: when the candidate connections exceed the maximum line count, the
\* lines built are at most the maximum in number and every line kept is no
\* longer than any candidate dropped
C25_ShortestConnectionsKept ==
    (call.fn = "connections" /\ Len(call.res.candidates) > maxConnections) =>
        /\ Len(call.res.lines) <= maxConnections
        /\ \A n \in 1..Len(call.res.lines) : \A seg \in Dropped(call) :
              SegmentLength(call, call.res.lines[n]) <= SegmentLength(call, seg)

\* C21: once MotionVectorMap or DistortionLayer is torn down its frame loop
\* is cancelled and everything it allocated is disposed: the renderer, the
\* targets, the materials, the quad geometry and the blue-noise texture
C21_TeardownDisposesAll ==
    /\ "MotionVectorMap" \notin mounted =>
          /\ ~mvRaf
          /\ \A r \in motionAllocated : gpu[r] = "disposed"
          /\ blueNoiseTextures[mvUniforms.distortion.uBlueNoise].disposed
    /\ "DistortionLayer" \notin mounted =>
          /\ ~dlRaf
          /\ \A r \in distortionAllocated : gpu[r] = "disposed"
          /\ blueNoiseTextures[dlUniforms.uBlueNoise].disposed

\* C26: once ScrollController is torn down no decay callback runs: none is
\* taken off the pending ones and the published velocity stays as it is
C26_NoDecayAfterTeardown ==
    []["ScrollController" \notin mounted =>
          /\ decayPending' = decayPending
          /\ store'.state.scrollVelocity = store.state.scrollVelocity
          /\ store'.uniformsRef.uScrollVelocity = store.uniformsRef.uScrollVelocity]_vars

C23_CursorWrittenBeforeRead ==
    \A n \in 1..Len(frame.log) :
        frame.log[n].op = "read uCursorPosition" =>
            \E k \in 1..(n - 1) : frame.log[k].op = "write uCursorPosition"

=============================================================================
